---- MODULE Spec2Model ----
(***************************************************************************)
(* Model of pysmt/typing.py: the sort classes (PySMTType and subclasses),  *)
(* the process-wide sort constants, and TypeManager with its five cache    *)
(* dictionaries and its factories BVType, FunctionType, ArrayType, Type,   *)
(* get_type_instance and normalize.                                        *)
(*                                                                         *)
(* A Python object is a record of what its constructor was given; the     *)
(* identity of an object (`is`) is the equality of the records, its value  *)
(* comparison (`==`) is PyEq and its hash is HashOf.  A dict is the set of *)
(* its entries and a lookup goes through hash and == as the interpreter's  *)
(* does.                                                                   *)
(***************************************************************************)
EXTENDS Integers, Sequences, FiniteSets, Bags, TLC

VARIABLES made, mgrs, dropped, th

vars == <<made, mgrs, dropped, th>>

(***************************************************************************)
(* Bounds and input sets of the model.                                     *)
(***************************************************************************)
\* objects the managers may allocate on top of the process-wide constants
MaxNew == 2
\* the same for the callers of SpecOwn
MaxOwn == 4
\* iterations of the worklist loop of normalize one call may take
MaxLoop == 40
\* how many parameters a function sort is asked with, how many arguments
\* a custom sort
ParamLens == {0, 1}
ArgLens == {0, 1, 2}

Managers == {1, 2}
\* widths callers ask for: 8 is pre-registered, 3 is not
Widths == {3, 8}
\* names callers declare
Names == {"Foo", "Array"}
Arities == {0, 1, 2}

\* Python's None where a string is expected (basename, name)
NoneName == "<None>"

(***************************************************************************)
(* Objects.  An object is the record of its class cls and of what its      *)
(* constructor was given: basename (the name, for a _TypeDecl), the tuple  *)
(* args, the number n (the width of a _BVType, the arity of a _TypeDecl)   *)
(* and, for a _TypeDecl, its manager typemgr.  Objects are immutable, so   *)
(* what __init__ derives and stores (self.args being None, self.arity,     *)
(* self.name) is read off the record.  Two objects are the same object     *)
(* (`is`) when the records are equal: id tells apart objects built from    *)
(* the same values at different times.                                     *)
(***************************************************************************)
MkObj(cls, basename, args, n, typemgr) ==
    [cls |-> cls, basename |-> basename, args |-> args, n |-> n,
     typemgr |-> typemgr, id |-> 0]

\* a Python value that is no PySMTType: an int, and the generator normalize
\* hands to get_type_instance
NonSort == MkObj("int", NoneName, <<>>, 0, 0)
Generator == MkObj("generator", NoneName, <<>>, 0, 0)

\* isinstance(x, PySMTType)
IsSort(x) == x.cls \in {"PySMTType", "_BoolType", "_IntType", "_RealType",
                        "_BVType", "_ArrayType", "_FunctionType"}
IsDecl(x) == x.cls = "_TypeDecl"
SortsOf(h) == {x \in h : IsSort(x)}
DeclsOf(h) == {x \in h : IsDecl(x)}

is_bool_type(x) == x.cls = "_BoolType"
is_int_type(x) == x.cls = "_IntType"
is_real_type(x) == x.cls = "_RealType"
is_bv_type(x) == x.cls = "_BVType"
is_array_type(x) == x.cls = "_ArrayType"
is_function_type(x) == x.cls = "_FunctionType"

\* self.args is None: the basic sorts and _BVType pass args=None
ArgsNone(x) == x.cls \in {"_BoolType", "_IntType", "_RealType", "_BVType"}
\* self.arity: len(args) if args else 0; the declared arity of a _TypeDecl
ArityOf(x) == IF IsDecl(x) THEN x.n ELSE Len(x.args)
\* _BVType.width
WidthOf(x) == x.n

\* _FunctionType.return_type / param_types, _ArrayType.index_type / elem_type
return_type(x) == x.args[1]
param_types(x) == Tail(x.args)
index_type(x) == x.args[1]
elem_type(x) == x.args[2]

(***************************************************************************)
(* self.name and str(x).  PySMTType.__init__ sets name to basename and the *)
(* rendered args in braces (None without a basename); __str__ returns it;  *)
(* _FunctionType.__str__ joins the parameters and the return type with     *)
(* " -> ".                                                                 *)
(***************************************************************************)
RECURSIVE JoinStr(_, _)
JoinStr(strs, sep) ==
    IF Len(strs) = 0 THEN ""
    ELSE IF Len(strs) = 1 THEN strs[1]
    ELSE strs[1] \o sep \o JoinStr(Tail(strs), sep)

RECURSIVE StrOf(_)
RECURSIVE NameOf(_)
NameOf(x) ==
    IF x.basename = NoneName \/ is_function_type(x) THEN NoneName
    ELSE IF Len(x.args) = 0 THEN x.basename
    ELSE x.basename \o "{"
            \o JoinStr([i \in 1..Len(x.args) |-> StrOf(x.args[i])], ", ") \o "}"

StrOf(x) ==
    IF is_function_type(x)
    THEN JoinStr([i \in 1..Len(x.args) |->
                     IF i < Len(x.args) THEN StrOf(x.args[i + 1])
                     ELSE StrOf(x.args[1])], " -> ")
    ELSE NameOf(x)

\* a new object: of the objects of h built from these values, the next one
Fresh(h, o) == [o EXCEPT !.id = 1 + Cardinality({x \in h : [x EXCEPT !.id = 0] = o})]

NewPySMTType(h, basename, args) ==
    Fresh(h, MkObj("PySMTType", basename, args, 0, 0))

NewBasic(h, cls, basename) ==
    Fresh(h, MkObj(cls, basename, <<>>, 0, 0))

NewBVType(h, width) ==
    Fresh(h, MkObj("_BVType", "BV{" \o ToString(width) \o "}", <<>>, width, 0))

NewArrayType(h, index, elem) ==
    Fresh(h, MkObj("_ArrayType", "Array", <<index, elem>>, 0, 0))

\* _FunctionType.__init__: PySMTType.__init__(self) then args = (return,) + params
NewFunctionType(h, ret, params) ==
    Fresh(h, MkObj("_FunctionType", NoneName, <<ret>> \o params, 0, 0))

NewTypeDecl(h, m, name, arity) ==
    Fresh(h, MkObj("_TypeDecl", name, <<>>, arity, m))

(***************************************************************************)
(* hash(x).  A hash is kept as the bag of the hashed atoms: the sum of     *)
(* _FunctionType.__init__ is commutative and associative, and so is the    *)
(* union of bags; hash(name) and hash(width) are one atom each.            *)
(***************************************************************************)
\* the hash of object, by identity
HashOfIdentity(x) == SetToBag({<<"id", ToString(x)>>})

RECURSIVE SumHash(_)
RECURSIVE HashOf(_)
HashOf(x) ==
    IF IsDecl(x) THEN SetToBag({<<"id", x.basename, ToString(x.typemgr), ToString(x.id)>>})
    ELSE IF is_bv_type(x) THEN SetToBag({<<"int", ToString(WidthOf(x))>>})
    ELSE IF is_function_type(x)
         THEN HashOf(return_type(x)) (+) SumHash(param_types(x))
    ELSE SetToBag({<<"str", NameOf(x)>>})

SumHash(xs) ==
    IF Len(xs) = 0 THEN EmptyBag
    ELSE HashOf(xs[1]) (+) SumHash(Tail(xs))

\* hash of a tuple: decided by the hashes of its elements, in order
TupleHash(xs) == [i \in 1..Len(xs) |-> HashOf(xs[i])]

(***************************************************************************)
(* a == b.  EqBase is PySMTType.__eq__, EqBV is _BVType.__eq__, EqFun is   *)
(* _FunctionType.__eq__; PyEq dispatches as the interpreter does: the      *)
(* right operand's method goes first when its class is a proper subclass   *)
(* of the left operand's class.  _TypeDecl defines no __eq__: identity.    *)
(***************************************************************************)
RECURSIVE PyEq(_, _)
RECURSIVE TupEq(_, _)

EqBase(self, other) ==
    \/ self = other
    \/ /\ self.basename = other.basename
       /\ ArgsNone(self) = ArgsNone(other)
       /\ (~ArgsNone(self) => TupEq(self.args, other.args))

EqBV(self, other) ==
    \/ EqBase(self, other)
    \/ is_bv_type(other) /\ WidthOf(self) = WidthOf(other)

EqFun(self, other) ==
    \/ self = other
    \/ /\ is_function_type(other)
       /\ PyEq(return_type(self), return_type(other))
       /\ TupEq(param_types(self), param_types(other))

EqMethod(self, other) ==
    IF is_bv_type(self) THEN EqBV(self, other)
    ELSE IF is_function_type(self) THEN EqFun(self, other)
    ELSE EqBase(self, other)

PyEq(a, b) ==
    IF IsDecl(a) \/ IsDecl(b) THEN a = b
    ELSE IF a.cls = "PySMTType" /\ b.cls # "PySMTType"
         THEN EqMethod(b, a)
    ELSE EqMethod(a, b)

\* tuple.__eq__: same length, and each pair identical or ==
TupEq(s, t) ==
    /\ Len(s) = Len(t)
    /\ \A i \in 1..Len(s) : s[i] = t[i] \/ PyEq(s[i], t[i])

(***************************************************************************)
(* dict.  A dict is the set of its entries [k, v]; the key of _bv_types is *)
(* a width, of _custom_types_decl a name, of the others a tuple of objects *)
(* (flattened left to right).  A lookup of k lands on an entry whose key   *)
(* has the hash of k and is identical or == to it (stored key on the       *)
(* left); no entry is KeyError.                                            *)
(***************************************************************************)
KeyMatch(stored, k) ==
    /\ TupEq(stored, k)
    /\ TupleHash(stored) = TupleHash(k)

DictHits(d, k) == {e \in d : KeyMatch(e.k, k)}
DictHas(d, k) == DictHits(d, k) # {}
DictGet(d, k) == (CHOOSE e \in DictHits(d, k) : TRUE).v

\* d[k] = v: a key already present keeps its key object
DictSet(d, k, v) ==
    IF DictHas(d, k)
    THEN LET e == CHOOSE e \in DictHits(d, k) : TRUE
         IN  (d \ {e}) \cup {[k |-> e.k, v |-> v]}
    ELSE d \cup {[k |-> k, v |-> v]}

\* the same for the dicts keyed by a width or a name
PlainHas(d, k) == \E e \in d : e.k = k
PlainGet(d, k) == (CHOOSE e \in d : e.k = k).v
PlainSet(d, k, v) == {e \in d : e.k # k} \cup {[k |-> k, v |-> v]}

Values(d) == {e.v : e \in d}

(***************************************************************************)
(* The process-wide constants (module level of typing.py).                 *)
(***************************************************************************)
BOOL == NewBasic({}, "_BoolType", "Bool")
REAL == NewBasic({}, "_RealType", "Real")
INT == NewBasic({}, "_IntType", "Int")
PYSMT_TYPES == {BOOL, REAL, INT}

GlobalWidths == {1, 8, 16, 32, 64, 128}
GlobalBV(w) == NewBVType({}, w)
BV8 == GlobalBV(8)
ARRAY_INT_INT == NewArrayType({}, INT, INT)

GlobalHeap == PYSMT_TYPES \cup {GlobalBV(w) : w \in GlobalWidths} \cup {ARRAY_INT_INT}

(***************************************************************************)
(* TypeManager.  A manager is the record of its five dicts; an operation   *)
(* takes the objects allocated so far h, the managers M and the manager m  *)
(* it is called on and yields the objects and managers after the call,     *)
(* the value returned (ret) and the exception raised (err, "" when the     *)
(* call returns).                                                          *)
(***************************************************************************)
Outcome(h, M, ret, err) == [heap |-> h, mgrs |-> M, ret |-> ret, err |-> err]

\* a manager that skips load_global_types
NewManagerEmpty ==
    [bv_types |-> {}, function_types |-> {}, array_types |-> {},
     custom_types |-> {}, custom_types_decl |-> {}]

\* TypeManager.__init__ with load_global_types
NewManager ==
    [bv_types |-> {[k |-> w, v |-> GlobalBV(w)] : w \in GlobalWidths},
     function_types |-> {},
     array_types |-> {[k |-> <<INT, INT>>, v |-> ARRAY_INT_INT]},
     custom_types |-> {},
     custom_types_decl |-> {}]

\* a BVType that does not look its dict up
BVTypeUncached(h, M, m, width) ==
    LET ty == NewBVType(h, width)
    IN  Outcome(h \cup {ty},
                [M EXCEPT ![m].bv_types = PlainSet(M[m].bv_types, width, ty)],
                ty, "")

BVType(h, M, m, width) ==
    LET d == M[m].bv_types
        ty == NewBVType(h, width)
    IN  IF PlainHas(d, width) THEN Outcome(h, M, PlainGet(d, width), "")
        ELSE Outcome(h \cup {ty},
                     [M EXCEPT ![m].bv_types = PlainSet(d, width, ty)], ty, "")

\* a FunctionType without the case of no parameters
FunctionTypeNoDegenerate(h, M, m, ret, params) ==
    LET d == M[m].function_types
        key == <<ret>> \o params
        ty == NewFunctionType(h, ret, params)
    IN  IF DictHas(d, key) THEN Outcome(h, M, DictGet(d, key), "")
        ELSE Outcome(h \cup {ty},
                     [M EXCEPT ![m].function_types = DictSet(d, key, ty)], ty, "")

FunctionType(h, M, m, ret, params) ==
    LET d == M[m].function_types
        key == <<ret>> \o params
        ty == NewFunctionType(h, ret, params)
    IN  IF Len(params) = 0 THEN Outcome(h, M, ret, "")
        ELSE IF DictHas(d, key) THEN Outcome(h, M, DictGet(d, key), "")
        ELSE Outcome(h \cup {ty},
                     [M EXCEPT ![m].function_types = DictSet(d, key, ty)], ty, "")

ArrayType(h, M, m, index, elem) ==
    LET d == M[m].array_types
        key == <<index, elem>>
        ty == NewArrayType(h, index, elem)
    IN  IF DictHas(d, key) THEN Outcome(h, M, DictGet(d, key), "")
        ELSE Outcome(h \cup {ty},
                     [M EXCEPT ![m].array_types = DictSet(d, key, ty)], ty, "")

\* a get_type_instance that stores in the manager of the declaration
get_type_instance_decl_mgr(h, M, m, type_decl, args) ==
    LET o == type_decl.typemgr
        d == M[o].custom_types
        key == <<type_decl>> \o args
        ty == NewPySMTType(h, type_decl.basename, args)
    IN  IF \E j \in 1..Len(args) : ~IsSort(args[j])
        THEN Outcome(h, M, NonSort, "PysmtValueError")
        ELSE IF DictHas(d, key) THEN Outcome(h, M, DictGet(d, key), "")
        ELSE Outcome(h \cup {ty},
                     [M EXCEPT ![o].custom_types = DictSet(d, key, ty)], ty, "")

\* a get_type_instance that only rejects a call none of whose arguments is a
\* sort
get_type_instance_any(h, M, m, type_decl, args) ==
    LET d == M[m].custom_types
        key == <<type_decl>> \o args
        ty == NewPySMTType(h, type_decl.basename, args)
    IN  IF Len(args) > 0 /\ \A j \in 1..Len(args) : ~IsSort(args[j])
        THEN Outcome(h, M, NonSort, "PysmtValueError")
        ELSE IF DictHas(d, key) THEN Outcome(h, M, DictGet(d, key), "")
        ELSE Outcome(h \cup {ty},
                     [M EXCEPT ![m].custom_types = DictSet(d, key, ty)], ty, "")

get_type_instance(h, M, m, type_decl, args) ==
    LET d == M[m].custom_types
        key == <<type_decl>> \o args
        ty == NewPySMTType(h, type_decl.basename, args)
    IN  IF \E j \in 1..Len(args) : ~IsSort(args[j])
        THEN Outcome(h, M, NonSort, "PysmtValueError")
        ELSE IF DictHas(d, key) THEN Outcome(h, M, DictGet(d, key), "")
        ELSE Outcome(h \cup {ty},
                     [M EXCEPT ![m].custom_types = DictSet(d, key, ty)], ty, "")

\* a Type that instantiates the declaration whatever its arity
TypeInstantiates(h, M, m, name, arity) ==
    LET d == M[m].custom_types_decl
        known == PlainHas(d, name)
        td == IF known THEN PlainGet(d, name) ELSE NewTypeDecl(h, m, name, arity)
        h1 == IF known THEN h ELSE h \cup {td}
        M1 == IF known THEN M
              ELSE [M EXCEPT ![m].custom_types_decl = PlainSet(d, name, td)]
        r == get_type_instance(h1, M1, m, td, <<>>)
    IN  IF known /\ ArityOf(td) # arity
        THEN Outcome(h, M, NonSort, "PysmtValueError")
        ELSE IF ArityOf(td) = 0 THEN r
        ELSE Outcome(r.heap, r.mgrs, td, "")

\* a Type that declares the name again when the arity differs
TypeRedeclare(h, M, m, name, arity) ==
    LET d == M[m].custom_types_decl
        known == PlainHas(d, name) /\ ArityOf(PlainGet(d, name)) = arity
        td == IF known THEN PlainGet(d, name) ELSE NewTypeDecl(h, m, name, arity)
        h1 == IF known THEN h ELSE h \cup {td}
        M1 == IF known THEN M
              ELSE [M EXCEPT ![m].custom_types_decl = PlainSet(d, name, td)]
    IN  IF ArityOf(td) = 0 THEN get_type_instance(h1, M1, m, td, <<>>)
        ELSE Outcome(h1, M1, td, "")

\* a Type that returns the declaration whatever the arity
TypeReturnsDecl(h, M, m, name, arity) ==
    LET d == M[m].custom_types_decl
        known == PlainHas(d, name)
        td == IF known THEN PlainGet(d, name) ELSE NewTypeDecl(h, m, name, arity)
        h1 == IF known THEN h ELSE h \cup {td}
        M1 == IF known THEN M
              ELSE [M EXCEPT ![m].custom_types_decl = PlainSet(d, name, td)]
        r == get_type_instance(h1, M1, m, td, <<>>)
    IN  IF known /\ ArityOf(td) # arity
        THEN Outcome(h, M, NonSort, "PysmtValueError")
        ELSE IF ArityOf(td) = 0 THEN Outcome(r.heap, r.mgrs, td, "")
        ELSE Outcome(h1, M1, td, "")

Type(h, M, m, name, arity) ==
    LET d == M[m].custom_types_decl
        known == PlainHas(d, name)
        td == IF known THEN PlainGet(d, name) ELSE NewTypeDecl(h, m, name, arity)
        h1 == IF known THEN h ELSE h \cup {td}
        M1 == IF known THEN M
              ELSE [M EXCEPT ![m].custom_types_decl = PlainSet(d, name, td)]
    IN  IF known /\ ArityOf(td) # arity
        THEN Outcome(h, M, NonSort, "PysmtValueError")
        ELSE IF ArityOf(td) = 0 THEN get_type_instance(h1, M1, m, td, <<>>)
        ELSE Outcome(h1, M1, td, "")

(***************************************************************************)
(* TypeManager.normalize.  A configuration of the worklist loop is the     *)
(* objects and managers so far, the stack, the typemap (a dict keyed by    *)
(* the source sort), the exception raised and the iterations done.         *)
(***************************************************************************)
InTypemap(typemap, x) == DictHas(typemap, <<x>>)
TypemapGet(typemap, x) == DictGet(typemap, <<x>>)
MapTypemap(typemap, xs) == [i \in 1..Len(xs) |-> TypemapGet(typemap, xs[i])]

\* a missing that takes every sub-sort of ty, converted or not
MissingAll(typemap, ty) == ty.args

\* lines 476-477: the sub-sorts of ty that have no image yet, in order
Missing(typemap, ty) ==
    LET Absent(x) == ~InTypemap(typemap, x)
    IN  SelectSeq(ty.args, Absent)

\* lines 467-473: the image of a sort of arity 0
NormLeaf(h, M, m, ty) ==
    IF is_bool_type(ty) \/ is_int_type(ty) \/ is_real_type(ty)
    THEN Outcome(h, M, ty, "")
    ELSE IF is_bv_type(ty) THEN BVType(h, M, m, WidthOf(ty))
    ELSE Type(h, M, m, ty.basename, 0)

\* lines 483-495: the image of a sort whose sub-sorts all have their image.
\* The Custom branch reads the root type_, not ty, and hands the generator
\* new_args to get_type_instance as its one argument.
NormCompound(h, M, m, typemap, type_, ty) ==
    IF is_array_type(ty)
    THEN ArrayType(h, M, m, TypemapGet(typemap, index_type(ty)),
                   TypemapGet(typemap, elem_type(ty)))
    ELSE IF is_function_type(ty)
    THEN FunctionType(h, M, m, TypemapGet(typemap, return_type(ty)),
                      MapTypemap(typemap, param_types(ty)))
    ELSE LET td == Type(h, M, m, type_.basename, ArityOf(type_))
         IN  IF td.err # "" THEN td
             ELSE get_type_instance(td.heap, td.mgrs, m, td.ret, <<Generator>>)

\* a loop that returns the image of a function sort as soon as it is built
NormStepReturnsFunction(c, m, type_) ==
    LET ty == c.stack[Len(c.stack)]
        rest == SubSeq(c.stack, 1, Len(c.stack) - 1)
        missing == Missing(c.typemap, ty)
        r == IF ArityOf(ty) = 0 THEN NormLeaf(c.heap, c.mgrs, m, ty)
             ELSE NormCompound(c.heap, c.mgrs, m, c.typemap, type_, ty)
    IN  IF ArityOf(ty) # 0 /\ Len(missing) > 0
        THEN [c EXCEPT !.stack = rest \o <<ty>> \o missing, !.steps = @ + 1]
        ELSE IF r.err # ""
        THEN [c EXCEPT !.heap = r.heap, !.mgrs = r.mgrs, !.err = r.err,
                       !.steps = @ + 1]
        ELSE IF is_function_type(ty)
        THEN [c EXCEPT !.heap = r.heap, !.mgrs = r.mgrs, !.stack = <<>>,
                       !.typemap = DictSet(DictSet(c.typemap, <<ty>>, r.ret),
                                           <<type_>>, r.ret),
                       !.steps = @ + 1, !.writes = @ + 1]
        ELSE [c EXCEPT !.heap = r.heap, !.mgrs = r.mgrs, !.stack = rest,
                       !.typemap = DictSet(c.typemap, <<ty>>, r.ret),
                       !.steps = @ + 1, !.writes = @ + 1]

\* one iteration of the while loop (lines 466-496); writes counts the
\* stores typemap[ty] = myty
NormStep(c, m, type_) ==
    LET ty == c.stack[Len(c.stack)]
        rest == SubSeq(c.stack, 1, Len(c.stack) - 1)
        missing == Missing(c.typemap, ty)
        r == IF ArityOf(ty) = 0 THEN NormLeaf(c.heap, c.mgrs, m, ty)
             ELSE NormCompound(c.heap, c.mgrs, m, c.typemap, type_, ty)
    IN  IF ArityOf(ty) # 0 /\ Len(missing) > 0
        THEN [c EXCEPT !.stack = rest \o <<ty>> \o missing, !.steps = @ + 1]
        ELSE IF r.err # ""
        THEN [c EXCEPT !.heap = r.heap, !.mgrs = r.mgrs, !.err = r.err,
                       !.steps = @ + 1]
        ELSE [c EXCEPT !.heap = r.heap, !.mgrs = r.mgrs, !.stack = rest,
                       !.typemap = DictSet(c.typemap, <<ty>>, r.ret),
                       !.steps = @ + 1, !.writes = @ + 1]

NormInit(h, M, type_) ==
    [heap |-> h, mgrs |-> M, stack |-> <<type_>>, typemap |-> {},
     err |-> "", steps |-> 0, writes |-> 0]

RECURSIVE NormLoop(_, _, _)
NormLoop(c, m, type_) ==
    IF c.err # "" \/ Len(c.stack) = 0 THEN c
    ELSE IF c.steps >= MaxLoop THEN [c EXCEPT !.err = "LoopBound"]
    ELSE NormLoop(NormStep(c, m, type_), m, type_)

\* the configurations the loop goes through, from c to the one it ends in
RECURSIVE NormRun(_, _, _)
NormRun(c, m, type_) ==
    IF c.err # "" \/ Len(c.stack) = 0 \/ c.steps >= MaxLoop THEN <<c>>
    ELSE <<c>> \o NormRun(NormStep(c, m, type_), m, type_)

normalize(h, M, m, type_) ==
    LET c == NormLoop(NormInit(h, M, type_), m, type_)
    IN  IF c.err # "" THEN Outcome(c.heap, c.mgrs, NonSort, c.err)
        ELSE Outcome(c.heap, c.mgrs, TypemapGet(c.typemap, type_), "")

(***************************************************************************)
(* The program: the managers of the process and the calls made on them.    *)
(* A call leaves behind what it allocated and stored, also when it ends    *)
(* raising.  `made` holds the objects allocated since the constants,       *)
(* `heap` all objects.  `dropped` is the history the dicts do not show:    *)
(* every entry a dict of a manager has held and holds no longer.           *)
(***************************************************************************)
heap == GlobalHeap \cup made

NoneDropped ==
    [bv_types |-> {}, function_types |-> {}, array_types |-> {},
     custom_types |-> {}, custom_types_decl |-> {}]

Record(dr, M, M1) ==
    [m \in Managers |->
        [bv_types |-> dr[m].bv_types \cup (M[m].bv_types \ M1[m].bv_types),
         function_types |->
            dr[m].function_types \cup (M[m].function_types \ M1[m].function_types),
         array_types |->
            dr[m].array_types \cup (M[m].array_types \ M1[m].array_types),
         custom_types |->
            dr[m].custom_types \cup (M[m].custom_types \ M1[m].custom_types),
         custom_types_decl |->
            dr[m].custom_types_decl
                \cup (M[m].custom_types_decl \ M1[m].custom_types_decl)]]

\* every entry the dicts of m have ever held
Ever(m) ==
    [bv_types |-> mgrs[m].bv_types \cup dropped[m].bv_types,
     function_types |-> mgrs[m].function_types \cup dropped[m].function_types,
     array_types |-> mgrs[m].array_types \cup dropped[m].array_types,
     custom_types |-> mgrs[m].custom_types \cup dropped[m].custom_types,
     custom_types_decl |->
        mgrs[m].custom_types_decl \cup dropped[m].custom_types_decl]

\* the state after a call, within the bound on allocated objects
Commit(r, bound) ==
    /\ Cardinality(r.heap \ GlobalHeap) <= bound
    /\ made' = r.heap \ GlobalHeap
    /\ mgrs' = r.mgrs
    /\ dropped' = Record(dropped, mgrs, r.mgrs)
    /\ th' = th

\* no table changes without an allocation, so once the bound on allocated
\* objects is met no call can change the state any more
Room(bound) == Cardinality(made) < bound

\* sequences over S of the lengths in lens
SeqsOf(S, lens) == UNION {[1..n -> S] : n \in lens}

\* the sorts and the declarations a manager has handed out
Obtained(M, m) ==
    Values(M[m].bv_types) \cup Values(M[m].function_types)
        \cup Values(M[m].array_types) \cup Values(M[m].custom_types)
Declared(M, m) == Values(M[m].custom_types_decl)

\* the sorts callers pass: INT, and every sort allocated since by whichever
\* manager
ArgSorts(h) == {INT} \cup (SortsOf(h) \ GlobalHeap)
\* the declarations callers instantiate
ArgDecls(h) == {d \in DeclsOf(h) : d.basename # NoneName}

\* the threads of the unsynchronized runs, and a thread outside a call
Threads == {1, 2}
Idle == [pc |-> "idle", op |-> "", key |-> <<>>, ret |-> NonSort,
         missed |-> FALSE]

Init ==
    /\ made = {}
    /\ mgrs = [m \in Managers |-> NewManager]
    /\ dropped = [m \in Managers |-> NoneDropped]
    /\ th = [t \in Threads |-> Idle]

DoBVType ==
    /\ Room(MaxNew)
    /\ \E m \in Managers, w \in Widths :
           Commit(BVType(heap, mgrs, m, w), MaxNew)

DoArrayType ==
    /\ Room(MaxNew)
    /\ \E m \in Managers, i \in ArgSorts(heap), e \in ArgSorts(heap) :
           Commit(ArrayType(heap, mgrs, m, i, e), MaxNew)

DoFunctionType ==
    /\ Room(MaxNew)
    /\ \E m \in Managers, r \in ArgSorts(heap),
          ps \in SeqsOf(ArgSorts(heap), ParamLens) :
           Commit(FunctionType(heap, mgrs, m, r, ps), MaxNew)

DoType ==
    /\ Room(MaxNew)
    /\ \E m \in Managers, name \in Names, arity \in Arities :
           Commit(Type(heap, mgrs, m, name, arity), MaxNew)

DoGetTypeInstance ==
    /\ Room(MaxNew)
    /\ \E m \in Managers, d \in ArgDecls(heap),
          args \in SeqsOf(ArgSorts(heap) \cup {NonSort}, ArgLens) :
           Commit(get_type_instance(heap, mgrs, m, d, args), MaxNew)

DoNormalize ==
    /\ Room(MaxNew)
    /\ \E m \in Managers, t \in ArgSorts(heap) :
           Commit(normalize(heap, mgrs, m, t), MaxNew)

Next ==
    \/ DoBVType
    \/ DoArrayType
    \/ DoFunctionType
    \/ DoType
    \/ DoGetTypeInstance
    \/ DoNormalize

Spec == Init /\ [][Next]_vars

(***************************************************************************)
(* The same program with callers that keep to a discipline: a manager is   *)
(* only handed sorts and declarations it has itself handed out (and the    *)
(* constants INT and ARRAY_INT_INT), except by normalize, which is made    *)
(* for the sorts of another manager.  Callers declare the sort "Array".    *)
(***************************************************************************)
OwnSorts(M, m) == {INT, ARRAY_INT_INT} \cup (Obtained(M, m) \ GlobalHeap)

OwnArrayType ==
    /\ Room(MaxOwn)
    /\ \E m \in Managers : \E i \in OwnSorts(mgrs, m), e \in OwnSorts(mgrs, m) :
           Commit(ArrayType(heap, mgrs, m, i, e), MaxOwn)

OwnType ==
    /\ Room(MaxOwn)
    /\ \E m \in Managers :
           Commit(Type(heap, mgrs, m, "Array", 2), MaxOwn)

OwnGetTypeInstance ==
    /\ Room(MaxOwn)
    /\ \E m \in Managers : \E d \in Declared(mgrs, m),
                              args \in SeqsOf(OwnSorts(mgrs, m), {2}) :
           Commit(get_type_instance(heap, mgrs, m, d, args), MaxOwn)

OwnNormalize ==
    /\ Room(MaxOwn)
    /\ \E m \in Managers, t \in SortsOf(heap) \ GlobalHeap :
           Commit(normalize(heap, mgrs, m, t), MaxOwn)

NextOwn ==
    \/ OwnArrayType
    \/ OwnType
    \/ OwnGetTypeInstance
    \/ OwnNormalize

SpecOwn == Init /\ [][NextOwn]_vars

(***************************************************************************)
(* Two threads on one manager.  The factories take no lock: between the    *)
(* lookup in the try block and the store in the except block of one call   *)
(* the other thread may run.  A thread makes one call; th[t] is where it   *)
(* stands: idle before the call, "missed" between a lookup that raised     *)
(* KeyError and the store, done once it returned.  key is the key as the   *)
(* factory builds it (<<width>> for BVType), missed whether the lookup     *)
(* raised KeyError, ret the instance returned.                             *)
(***************************************************************************)
RaceMgr == 1
RaceSorts == {INT, BOOL}
RaceOps == {"BVType", "ArrayType", "FunctionType", "get_type_instance"}

\* the keys the threads call op with: both widths, pairs of sorts for an
\* array and for a function of one parameter, a declaration of the manager
\* with one argument
RaceKeys(M, op) ==
    IF op = "BVType" THEN {<<w>> : w \in Widths}
    ELSE IF op = "get_type_instance"
    THEN {<<d, a>> : d \in Declared(M, RaceMgr), a \in RaceSorts}
    ELSE SeqsOf(RaceSorts, {2})

\* the try block of a factory: ty = self._xxx_types[key]
TryLookup(M, m, op, key) ==
    LET d == IF op = "BVType" THEN M[m].bv_types
             ELSE IF op = "ArrayType" THEN M[m].array_types
             ELSE IF op = "FunctionType" THEN M[m].function_types
             ELSE M[m].custom_types
    IN  IF op = "BVType"
        THEN IF PlainHas(d, key[1])
             THEN [hit |-> TRUE, ret |-> PlainGet(d, key[1])]
             ELSE [hit |-> FALSE, ret |-> NonSort]
        ELSE IF DictHas(d, key)
             THEN [hit |-> TRUE, ret |-> DictGet(d, key)]
             ELSE [hit |-> FALSE, ret |-> NonSort]

\* an except block that looks the table up again before it stores
ExceptStoreChecked(h, M, m, op, key) ==
    LET ty == IF op = "BVType" THEN NewBVType(h, key[1])
              ELSE IF op = "ArrayType" THEN NewArrayType(h, key[1], key[2])
              ELSE IF op = "FunctionType"
              THEN NewFunctionType(h, key[1], Tail(key))
              ELSE NewPySMTType(h, key[1].basename, Tail(key))
        M1 == IF op = "BVType"
              THEN [M EXCEPT ![m].bv_types = PlainSet(@, key[1], ty)]
              ELSE IF op = "ArrayType"
              THEN [M EXCEPT ![m].array_types = DictSet(@, key, ty)]
              ELSE IF op = "FunctionType"
              THEN [M EXCEPT ![m].function_types = DictSet(@, key, ty)]
              ELSE [M EXCEPT ![m].custom_types = DictSet(@, key, ty)]
    IN  IF TryLookup(M, m, op, key).hit
        THEN Outcome(h, M, TryLookup(M, m, op, key).ret, "")
        ELSE Outcome(h \cup {ty}, M1, ty, "")

\* the except block of a factory: build the instance, store it under the
\* key, whatever the table holds by now
ExceptStore(h, M, m, op, key) ==
    LET ty == IF op = "BVType" THEN NewBVType(h, key[1])
              ELSE IF op = "ArrayType" THEN NewArrayType(h, key[1], key[2])
              ELSE IF op = "FunctionType"
              THEN NewFunctionType(h, key[1], Tail(key))
              ELSE NewPySMTType(h, key[1].basename, Tail(key))
        M1 == IF op = "BVType"
              THEN [M EXCEPT ![m].bv_types = PlainSet(@, key[1], ty)]
              ELSE IF op = "ArrayType"
              THEN [M EXCEPT ![m].array_types = DictSet(@, key, ty)]
              ELSE IF op = "FunctionType"
              THEN [M EXCEPT ![m].function_types = DictSet(@, key, ty)]
              ELSE [M EXCEPT ![m].custom_types = DictSet(@, key, ty)]
    IN  Outcome(h \cup {ty}, M1, ty, "")

\* the owner declares a sort of arity 1 before or while the threads run
RaceDeclare ==
    /\ Declared(mgrs, RaceMgr) = {}
    /\ LET r == Type(heap, mgrs, RaceMgr, "Foo", 1)
       IN  /\ made' = r.heap \ GlobalHeap
           /\ mgrs' = r.mgrs
           /\ dropped' = Record(dropped, mgrs, r.mgrs)
           /\ th' = th

\* thread t enters a factory and runs its try block
RaceTry(t) ==
    /\ th[t].pc = "idle"
    /\ \E op \in RaceOps : \E key \in RaceKeys(mgrs, op) :
           LET l == TryLookup(mgrs, RaceMgr, op, key)
           IN  th' = [th EXCEPT ![t] =
                         [pc |-> IF l.hit THEN "done" ELSE "missed",
                          op |-> op, key |-> key, ret |-> l.ret,
                          missed |-> ~l.hit]]
    /\ UNCHANGED <<made, mgrs, dropped>>

\* thread t runs the except block and returns
RaceExcept(t) ==
    /\ th[t].pc = "missed"
    /\ LET r == ExceptStore(heap, mgrs, RaceMgr, th[t].op, th[t].key)
       IN  /\ made' = r.heap \ GlobalHeap
           /\ mgrs' = r.mgrs
           /\ dropped' = Record(dropped, mgrs, r.mgrs)
           /\ th' = [th EXCEPT ![t].pc = "done", ![t].ret = r.ret]

NextRace ==
    \/ RaceDeclare
    \/ \E t \in Threads : RaceTry(t)
    \/ \E t \in Threads : RaceExcept(t)

SpecRace == Init /\ [][NextRace]_vars

(***************************************************************************)
(* What the claims are stated with.                                        *)
(***************************************************************************)
\* the same structural key: the same variant and payload at every depth,
\* whichever the instances (a declaration is its own key)
RECURSIVE SameStruct(_, _)
SameStruct(a, b) ==
    IF IsDecl(a) \/ IsDecl(b) THEN a = b
    ELSE /\ a.cls = b.cls
         /\ a.basename = b.basename
         /\ a.n = b.n
         /\ Len(a.args) = Len(b.args)
         /\ \A i \in 1..Len(a.args) : SameStruct(a.args[i], b.args[i])

\* the sorts the calls of the claims are made with
CallSorts(h) == {INT, ARRAY_INT_INT} \cup (SortsOf(h) \ GlobalHeap)
CallWidths == Widths \cup GlobalWidths
\* the keys callers can pass that are structurally the key k
RECURSIVE SameKeys(_, _)
SameKeys(h, k) ==
    IF k = <<>> THEN {<<>>}
    ELSE {<<a>> \o t : a \in {y \in CallSorts(h) \cup {Head(k)} :
                                 SameStruct(Head(k), y)},
                       t \in SameKeys(h, Tail(k))}
ArrayKeys(h) == SeqsOf(CallSorts(h), {2})
FunctionKeys(h) == SeqsOf(CallSorts(h), {2})
CustomKeys(h) ==
    {<<d>> \o args : d \in ArgDecls(h), args \in SeqsOf(CallSorts(h), ArgLens)}

\* a call given its key
ArrayCall(h, M, m, k) == ArrayType(h, M, m, k[1], k[2])
FunctionCall(h, M, m, k) == FunctionType(h, M, m, k[1], Tail(k))
CustomCall(h, M, m, k) == get_type_instance(h, M, m, k[1], Tail(k))

Unchanged(r) == r.heap = heap /\ r.mgrs = mgrs

\* C1: two calls of one factory of one manager with the same structural key
\* return the identical instance, whatever was called in between: a call
\* right after a call returns what that call returned, and a key a dict has
\* ever held is still answered with the instance it was first held with.
C1_Canonical ==
    \A m \in Managers :
        /\ \A w \in CallWidths :
              \A r1 \in {BVType(heap, mgrs, m, w)} :
                  BVType(r1.heap, r1.mgrs, m, w).ret = r1.ret
        /\ \A e \in Ever(m).bv_types : BVType(heap, mgrs, m, e.k).ret = e.v
        /\ \A k \in ArrayKeys(heap) :
              \A r1 \in {ArrayCall(heap, mgrs, m, k)} :
                  \A k2 \in SameKeys(heap, k) :
                     ArrayCall(r1.heap, r1.mgrs, m, k2).ret = r1.ret
        /\ \A e \in Ever(m).array_types : \A k2 \in SameKeys(heap, e.k) :
              ArrayCall(heap, mgrs, m, k2).ret = e.v
        /\ \A k \in FunctionKeys(heap) :
              \A r1 \in {FunctionCall(heap, mgrs, m, k)} :
                  \A k2 \in SameKeys(heap, k) :
                     FunctionCall(r1.heap, r1.mgrs, m, k2).ret = r1.ret
        /\ \A e \in Ever(m).function_types : \A k2 \in SameKeys(heap, e.k) :
              FunctionCall(heap, mgrs, m, k2).ret = e.v
        /\ \A k \in CustomKeys(heap) :
              \A r1 \in {CustomCall(heap, mgrs, m, k)} :
                  \A k2 \in SameKeys(heap, k) :
                     CustomCall(r1.heap, r1.mgrs, m, k2).ret = r1.ret
        /\ \A e \in Ever(m).custom_types : \A k2 \in SameKeys(heap, e.k) :
              CustomCall(heap, mgrs, m, k2).ret = e.v

\* a manager holds a bit-vector sort it made and a compound sort made of it,
\* and answers their keys with them
C1_Witness ==
    \E m \in Managers : \E b \in Values(mgrs[m].bv_types) \ GlobalHeap :
        /\ BVType(heap, mgrs, m, WidthOf(b)).ret = b
        /\ \E e \in mgrs[m].array_types \cup mgrs[m].function_types :
              /\ b \in {e.k[i] : i \in 1..Len(e.k)}
              /\ e.v \notin GlobalHeap
              /\ \/ ArrayCall(heap, mgrs, m, e.k).ret = e.v
                 \/ FunctionCall(heap, mgrs, m, e.k).ret = e.v

\* C2 as claimed: two sorts a manager has handed out are == exactly when
\* they are the identical instance
C2_EqIsIdentity ==
    \A m \in Managers : \A a \in Obtained(mgrs, m), b \in Obtained(mgrs, m) :
        PyEq(a, b) <=> a = b

\* C3 as claimed: normalize returns a sort, whatever the sort and the state
C3_NormalizeTotal ==
    \A m \in Managers : \A t \in SortsOf(heap) :
        normalize(heap, mgrs, m, t).err = ""

\* a sort built from Bool/Int/Real, BitVector, Array and Function alone
RECURSIVE Pure(_)
Pure(t) ==
    /\ t.cls \in {"_BoolType", "_IntType", "_RealType", "_BVType",
                  "_ArrayType", "_FunctionType"}
    /\ \A i \in 1..Len(t.args) : Pure(t.args[i])

\* the instance the factory of manager m returns for the structure of x
FactoryOf(h, M, m, x) ==
    IF is_bv_type(x) THEN BVType(h, M, m, WidthOf(x)).ret
    ELSE IF is_array_type(x)
    THEN ArrayType(h, M, m, index_type(x), elem_type(x)).ret
    ELSE IF is_function_type(x)
    THEN FunctionType(h, M, m, return_type(x), param_types(x)).ret
    ELSE x

\* x and its sub-sorts at every depth are the instances m's factories return
RECURSIVE DeepCanonical(_, _, _, _)
DeepCanonical(h, M, m, x) ==
    /\ FactoryOf(h, M, m, x) = x
    /\ \A i \in 1..Len(x.args) : DeepCanonical(h, M, m, x.args[i])

\* C4 as claimed: the image under m2 of a sort built in m1 from Bool/Int/
\* Real, BitVector, Array and Function has the structure of the sort, is
\* canonical in m2 at every depth, and is the image a second call returns
C4_NormalizeCanonical ==
    \A m1 \in Managers, m2 \in Managers : \A t \in Obtained(mgrs, m1) :
        (m1 # m2 /\ Pure(t)) =>
            LET r == normalize(heap, mgrs, m2, t)
            IN  /\ r.err = ""
                /\ SameStruct(r.ret, t)
                /\ DeepCanonical(r.heap, r.mgrs, m2, r.ret)
                /\ normalize(r.heap, r.mgrs, m2, t).ret = r.ret

\* C5 as claimed: normalizing the image again returns the image and adds
\* nothing to the manager
C5_NormalizeIdempotent ==
    \A m \in Managers : \A t \in SortsOf(heap) :
        LET r1 == normalize(heap, mgrs, m, t)
            r2 == normalize(r1.heap, r1.mgrs, m, r1.ret)
        IN  r1.err = "" =>
                /\ r2.err = ""
                /\ r2.ret = r1.ret
                /\ r2.mgrs = r1.mgrs
                /\ r2.heap = r1.heap

\* C6: Type with an arity other than the one the name is declared with
\* raises PysmtValueError and changes no table of the manager; Type with the
\* declared arity then returns the declaration, or for arity 0 the instance
\* the manager holds for it, and changes nothing either.
C6_ArityConflict ==
    \A m \in Managers : \A d \in Declared(mgrs, m) : \A b \in Arities :
        b # ArityOf(d) =>
            LET r == Type(heap, mgrs, m, d.basename, b)
                r2 == Type(r.heap, r.mgrs, m, d.basename, ArityOf(d))
            IN  /\ r.err = "PysmtValueError"
                /\ Unchanged(r)
                /\ r2.err = ""
                /\ Unchanged(r2)
                /\ IF ArityOf(d) > 0 THEN r2.ret = d
                   ELSE /\ r2.ret = DictGet(mgrs[m].custom_types, <<d>>)
                        /\ IsSort(r2.ret)
                        /\ ArityOf(r2.ret) = 0

\* a manager has declared a name with arity 1 and is asked for it with
\* arity 2
C6_Witness ==
    \E m \in Managers : \E d \in Declared(mgrs, m) :
        /\ ArityOf(d) = 1
        /\ Type(heap, mgrs, m, d.basename, 2).err = "PysmtValueError"

\* what is not a sort: an int, a generator, a declaration
BadArgs(h) == {NonSort, Generator} \cup DeclsOf(h)

\* C7: get_type_instance with an argument that is not a sort, at whichever
\* position and for whichever declaration, raises PysmtValueError and
\* changes no table of the manager.
C7_InvalidInstance ==
    \A m \in Managers : \A d \in DeclsOf(heap) :
        \A args \in SeqsOf(CallSorts(heap) \cup BadArgs(heap), ArgLens) :
            (\E j \in 1..Len(args) : args[j] \in BadArgs(heap)) =>
                LET r == get_type_instance(heap, mgrs, m, d, args)
                IN  r.err = "PysmtValueError" /\ Unchanged(r)

\* a manager holds an instance of a declaration and is asked for one with a
\* sort and an int
C7_Witness ==
    \E m \in Managers : \E d \in Declared(mgrs, m) :
        /\ \E e \in mgrs[m].custom_types : e.k[1] = d /\ Len(e.k) > 1
        /\ get_type_instance(heap, mgrs, m, d, <<INT, NonSort>>).err
               = "PysmtValueError"

\* C8: FunctionType with no parameters returns the return sort itself and
\* changes no table of the manager.
C8_FunctionDegenerate ==
    \A m \in Managers : \A R \in SortsOf(heap) :
        LET r == FunctionType(heap, mgrs, m, R, <<>>)
        IN  r.err = "" /\ r.ret = R /\ Unchanged(r)

\* a manager holds a function sort and is asked for the function sort of no
\* parameters that returns it
C8_Witness ==
    \E m \in Managers : \E R \in Values(mgrs[m].function_types) :
        /\ is_function_type(R)
        /\ FunctionType(heap, mgrs, m, R, <<>>).ret = R

\* C9: in every state of every manager, the first one included, BVType of
\* the widths 1, 8, 16, 32, 64, 128 and ArrayType(INT, INT) return the
\* constants of the module and allocate and store nothing.
C9_GlobalTypes ==
    \A m \in Managers :
        /\ \A w \in GlobalWidths :
              LET r == BVType(heap, mgrs, m, w)
              IN  r.err = "" /\ r.ret = GlobalBV(w) /\ Unchanged(r)
        /\ LET r == ArrayType(heap, mgrs, m, INT, INT)
           IN  r.err = "" /\ r.ret = ARRAY_INT_INT /\ Unchanged(r)

\* a manager that has made a bit-vector sort and an array sort of its own
\* still answers with the constants
C9_Witness ==
    \E m \in Managers :
        /\ Values(mgrs[m].bv_types) \ GlobalHeap # {}
        /\ Values(mgrs[m].array_types) \ GlobalHeap # {}
        /\ BVType(heap, mgrs, m, 8).ret = BV8
        /\ ArrayType(heap, mgrs, m, INT, INT).ret = ARRAY_INT_INT

\* C10: a manager holds one declaration per name and never drops or
\* replaces one; Type called again with the same name and arity returns
\* the identical object and changes nothing: the declaration for an arity
\* above 0, the sort instance for arity 0.
C10_DeclUnique ==
    \A m \in Managers :
        /\ \A e1 \in mgrs[m].custom_types_decl, e2 \in mgrs[m].custom_types_decl :
              e1.k = e2.k => e1 = e2
        /\ \A e \in mgrs[m].custom_types_decl : IsDecl(e.v) /\ e.v.basename = e.k
        /\ dropped[m].custom_types_decl = {}
        /\ \A name \in Names, k \in Arities :
              LET r1 == Type(heap, mgrs, m, name, k)
                  r2 == Type(r1.heap, r1.mgrs, m, name, k)
              IN  r1.err = "" =>
                      /\ r2.err = ""
                      /\ r2.ret = r1.ret
                      /\ r2.heap = r1.heap
                      /\ r2.mgrs = r1.mgrs
                      /\ PlainGet(r1.mgrs[m].custom_types_decl, name).n = k
                      /\ IF k > 0 THEN IsDecl(r1.ret) /\ ArityOf(r1.ret) = k
                         ELSE IsSort(r1.ret) /\ r1.ret.cls = "PySMTType"

\* a manager has declared a name with arity 0 and answers Type for it with
\* the instance it holds
C10_Witness ==
    \E m \in Managers : \E e \in mgrs[m].custom_types_decl :
        /\ ArityOf(e.v) = 0
        /\ Type(heap, mgrs, m, e.k, 0).ret \in Values(mgrs[m].custom_types)

\* the other managers hold what they held before the call that left r
OthersKept(m, r) == \A o \in Managers \ {m} : r.mgrs[o] = mgrs[o]

\* C11: a call on a manager, whichever the operation and whoever made its
\* arguments, leaves the five dicts of every other manager as they are.
C11_Isolation ==
    \A m \in Managers :
        /\ \A w \in CallWidths : OthersKept(m, BVType(heap, mgrs, m, w))
        /\ \A k \in ArrayKeys(heap) : OthersKept(m, ArrayCall(heap, mgrs, m, k))
        /\ \A k \in FunctionKeys(heap) :
              OthersKept(m, FunctionCall(heap, mgrs, m, k))
        /\ \A d \in DeclsOf(heap) :
              \A args \in SeqsOf(CallSorts(heap) \cup {NonSort}, ArgLens) :
                 OthersKept(m, get_type_instance(heap, mgrs, m, d, args))
        /\ \A name \in Names, k \in Arities :
              OthersKept(m, Type(heap, mgrs, m, name, k))
        /\ \A t \in SortsOf(heap) : OthersKept(m, normalize(heap, mgrs, m, t))

\* a manager holds a declaration and sorts of its own, and another manager
\* instantiates that declaration and normalizes those sorts into its dicts
C11_Witness ==
    \E m \in Managers, o \in Managers :
        /\ m # o
        /\ \E d \in Declared(mgrs, o) :
              get_type_instance(heap, mgrs, m, d, <<INT>>).mgrs[m] # mgrs[m]
        /\ \E t \in Obtained(mgrs, o) \ GlobalHeap :
              /\ normalize(heap, mgrs, m, t).err = ""
              /\ normalize(heap, mgrs, m, t).mgrs[m] # mgrs[m]

\* the sorts Type and get_type_instance return for declarations named as
\* the built-in sorts are
Lookalikes ==
    {NewPySMTType({}, n, <<>>) : n \in {"Bool", "Int", "Real", "BV{3}", "BV{8}", "Array"}}
        \cup {NewPySMTType({}, "Array", <<INT, INT>>)}

\* C12: sorts that are == have the same hash, whichever managers or
\* constants they come from; bit-vector sorts of one width are == and hash
\* alike, and so are function sorts of == return sorts and == parameters.
C12_HashAgrees ==
    /\ \A a \in SortsOf(heap) \cup Lookalikes, b \in SortsOf(heap) \cup Lookalikes :
          PyEq(a, b) => HashOf(a) = HashOf(b)
    /\ \A a \in SortsOf(heap), b \in SortsOf(heap) :
          /\ (is_bv_type(a) /\ is_bv_type(b) /\ WidthOf(a) = WidthOf(b)) =>
                 PyEq(a, b) /\ HashOf(a) = HashOf(b)
          /\ ( /\ is_function_type(a) /\ is_function_type(b)
               /\ PyEq(return_type(a), return_type(b))
               /\ TupEq(param_types(a), param_types(b)) ) =>
                 PyEq(a, b) /\ HashOf(a) = HashOf(b)

\* two managers hold each its own bit-vector sort of one width: two
\* instances that are == and hash alike
C12_Witness ==
    \E m \in Managers, o \in Managers :
        \E a \in Values(mgrs[m].bv_types), b \in Values(mgrs[o].bv_types) :
            /\ m # o /\ a # b
            /\ WidthOf(a) = WidthOf(b)
            /\ PyEq(a, b) /\ HashOf(a) = HashOf(b)

\* x is the instance manager m returns for the structure of x: a constant
\* of the module, or what m's factory answers
OwnInstance(h, M, m, x) ==
    IF x.cls = "PySMTType" THEN x \in Values(M[m].custom_types)
    ELSE FactoryOf(h, M, m, x) = x

\* C13 as claimed: the sub-sorts of every compound sort a manager holds are
\* the instances the manager itself returns for them, whoever made the
\* arguments callers passed
C13_SubsortsCanonical ==
    \A m \in Managers :
        \A x \in Values(mgrs[m].array_types) \cup Values(mgrs[m].function_types)
                    \cup Values(mgrs[m].custom_types) :
            \A i \in 1..Len(x.args) : OwnInstance(heap, mgrs, m, x.args[i])

Tables == {"bv_types", "array_types", "function_types", "custom_types",
           "custom_types_decl"}

\* the dicts of m in fs have one entry more after the call that left r, and
\* the other dicts of m hold what they held
Gained(m, r, fs) ==
    \A f \in Tables :
        IF f \in fs
        THEN /\ mgrs[m][f] \subseteq r.mgrs[m][f]
             /\ Cardinality(r.mgrs[m][f] \ mgrs[m][f]) = 1
        ELSE r.mgrs[m][f] = mgrs[m][f]

\* a call that allocates adds one entry to one dict, another call none
OneTable(m, r) ==
    IF r.heap = heap THEN Gained(m, r, {})
    ELSE \E f \in Tables : Gained(m, r, {f})

\* C14 as claimed: a call of BVType, ArrayType, FunctionType, Type or
\* get_type_instance that creates something adds one entry to exactly one
\* of the five dicts of the manager, and a call that creates nothing
\* changes none
C14_OneTable ==
    \A m \in Managers :
        /\ \A w \in CallWidths : OneTable(m, BVType(heap, mgrs, m, w))
        /\ \A k \in ArrayKeys(heap) : OneTable(m, ArrayCall(heap, mgrs, m, k))
        /\ \A k \in FunctionKeys(heap) :
              OneTable(m, FunctionCall(heap, mgrs, m, k))
        /\ \A d \in DeclsOf(heap) :
              \A args \in SeqsOf(CallSorts(heap) \cup {NonSort}, ArgLens) :
                 OneTable(m, get_type_instance(heap, mgrs, m, d, args))
        /\ \A name \in Names, k \in Arities :
              OneTable(m, Type(heap, mgrs, m, name, k))

\* C14 amended: as claimed for BVType, ArrayType, FunctionType and
\* get_type_instance; Type for a new name adds one entry to
\* _custom_types_decl and, when the arity is 0, one entry to _custom_types
\* as well; Type for a name already declared changes none.
C14_OneTableAmended ==
    \A m \in Managers :
        /\ \A w \in CallWidths : OneTable(m, BVType(heap, mgrs, m, w))
        /\ \A k \in ArrayKeys(heap) : OneTable(m, ArrayCall(heap, mgrs, m, k))
        /\ \A k \in FunctionKeys(heap) :
              OneTable(m, FunctionCall(heap, mgrs, m, k))
        /\ \A d \in DeclsOf(heap) :
              \A args \in SeqsOf(CallSorts(heap) \cup {NonSort}, ArgLens) :
                 OneTable(m, get_type_instance(heap, mgrs, m, d, args))
        /\ \A name \in Names, k \in Arities :
              Gained(m, Type(heap, mgrs, m, name, k),
                     IF PlainHas(mgrs[m].custom_types_decl, name) THEN {}
                     ELSE IF k = 0 THEN {"custom_types_decl", "custom_types"}
                     ELSE {"custom_types_decl"})

\* a manager that holds a declaration of arity 0 and its instance is asked
\* for a sort it has not and for a name it has not, with arity 0 and with
\* arity 1
C14_Witness ==
    \E m \in Managers : \E name \in Names :
        /\ \E d \in Declared(mgrs, m) :
              ArityOf(d) = 0 /\ DictHas(mgrs[m].custom_types, <<d>>)
        /\ ~PlainHas(mgrs[m].custom_types_decl, name)
        /\ Gained(m, Type(heap, mgrs, m, name, 0),
                  {"custom_types_decl", "custom_types"})
        /\ Gained(m, Type(heap, mgrs, m, name, 1), {"custom_types_decl"})
        /\ Gained(m, BVType(heap, mgrs, m, 3), {"bv_types"})

\* the sorts of the tree of t: t and its sub-sorts at every depth
RECURSIVE NodesOf(_)
NodesOf(t) == {t} \cup UNION {NodesOf(t.args[i]) : i \in 1..Len(t.args)}

\* the configuration normalize ends its loop in
NormEnd(m, t) == NormLoop(NormInit(heap, mgrs, t), m, t)

\* C15 as claimed: the image of a Custom node of arity above 0, at the root
\* or below it, is the instance the manager holds for the declaration of
\* the node's own name and arity applied to the images of its arguments;
\* the image of a Custom node of arity 0 is what Type(name, 0) returns
C15_CustomImage ==
    \A m \in Managers : \A t \in SortsOf(heap) :
        \A c \in {x \in NodesOf(t) : x.cls = "PySMTType"} :
            LET end == NormEnd(m, t)
                img == TypemapGet(end.typemap, c)
            IN  IF ArityOf(c) > 0
                THEN /\ end.err = ""
                     /\ img.cls = "PySMTType"
                     /\ img.basename = c.basename
                     /\ Len(img.args) = Len(c.args)
                     /\ \A i \in 1..Len(c.args) :
                           img.args[i] = TypemapGet(end.typemap, c.args[i])
                     /\ img \in Values(end.mgrs[m].custom_types)
                     /\ PlainHas(end.mgrs[m].custom_types_decl, c.basename)
                     /\ ArityOf(PlainGet(end.mgrs[m].custom_types_decl,
                                         c.basename)) = ArityOf(c)
                ELSE end.err = "" =>
                        img = Type(end.heap, end.mgrs, m, c.basename, 0).ret

\* the nodes of the tree of t, a shared sub-sort counted where it occurs
RECURSIVE TreeSize(_)
RECURSIVE SizeSum(_)
TreeSize(t) == 1 + SizeSum(t.args)
SizeSum(xs) == IF Len(xs) = 0 THEN 0 ELSE TreeSize(xs[1]) + SizeSum(Tail(xs))

\* C16: the loop of normalize ends, whatever the depth of the sort and the
\* sharing and repetition of its sub-sorts: it takes at most two iterations
\* for each node of the tree, and when it ends without raising the stack
\* is empty.
C16_NormalizeTerminates ==
    \A m \in Managers : \A t \in SortsOf(heap) :
        LET end == NormEnd(m, t)
        IN  /\ end.err # "LoopBound"
            /\ end.steps <= 2 * TreeSize(t)
            /\ end.err = "" => end.stack = <<>>

\* a sort whose two arguments are one and the same sort made by a manager
\* is normalized
C16_Witness ==
    \E m \in Managers : \E t \in SortsOf(made) :
        /\ Len(t.args) = 2
        /\ t.args[1] = t.args[2]
        /\ t.args[1] \in made
        /\ NormEnd(m, t).err = ""
        /\ NormEnd(m, t).stack = <<>>
        /\ NormEnd(m, t).steps = 4

\* C17: in every loop of normalize, the image of a compound sort is built
\* only once each of its sub-sorts has its image; and the loop goes on
\* after whichever node, so when it ends without raising the stack is
\* empty and the root and every sort below it, siblings included, has an
\* image of its own kind.
C17_PostOrderDrain ==
    \A m \in Managers : \A t \in SortsOf(heap) :
        LET run == NormRun(NormInit(heap, mgrs, t), m, t)
            end == run[Len(run)]
        IN  /\ \A j \in 1..(Len(run) - 1) :
                  LET ty == run[j].stack[Len(run[j].stack)]
                  IN  (ArityOf(ty) > 0 /\ Len(run[j + 1].stack) <= Len(run[j].stack))
                          => \A i \in 1..Len(ty.args) :
                                InTypemap(run[j].typemap, ty.args[i])
            /\ end.err = "" =>
                  /\ end.stack = <<>>
                  /\ \A x \in NodesOf(t) :
                        /\ InTypemap(end.typemap, x)
                        /\ TypemapGet(end.typemap, x).cls = x.cls

\* a sort holding a function sort beside another sub-sort is normalized
C17_Witness ==
    \E m \in Managers : \E t \in SortsOf(made) :
        /\ ~is_function_type(t)
        /\ \E i \in 1..Len(t.args) : is_function_type(t.args[i])
        /\ NormEnd(m, t).err = ""
        /\ NormEnd(m, t).stack = <<>>
        /\ \A x \in NodesOf(t) : InTypemap(NormEnd(m, t).typemap, x)

\* C18 as claimed: in one call of normalize a sort that is popped when it
\* has its image already is dropped, no factory called and nothing stored,
\* so each sort of the tree is stored in typemap once at most
C18_MemoizeOnce ==
    \A m \in Managers : \A t \in SortsOf(heap) :
        LET run == NormRun(NormInit(heap, mgrs, t), m, t)
            end == run[Len(run)]
        IN  /\ end.writes <= Cardinality(NodesOf(t))
            /\ \A j \in 1..(Len(run) - 1) :
                  InTypemap(run[j].typemap, run[j].stack[Len(run[j].stack)])
                      => run[j + 1].writes = run[j].writes

\* C19: under the unsynchronized runs, two finished calls of the same
\* factory with the same key on one manager return two distinct instances
\* exactly when both lookups raised KeyError, that is when the second
\* lookup ran between the first lookup and its store; the two instances
\* then have the same structural key and the table keeps one of them.
\* When one call ended before the other looked up, both return the same
\* instance.
RacePairs ==
    {p \in Threads \X Threads :
        /\ p[1] # p[2]
        /\ th[p[1]].pc = "done" /\ th[p[2]].pc = "done"
        /\ th[p[1]].op = th[p[2]].op
        /\ th[p[1]].key = th[p[2]].key}

C19_Race ==
    \A p \in RacePairs :
        LET a == th[p[1]]
            b == th[p[2]]
        IN  /\ (a.ret # b.ret) <=> (a.missed /\ b.missed)
            /\ a.ret # b.ret =>
                  /\ SameStruct(a.ret, b.ret)
                  /\ TryLookup(mgrs, RaceMgr, a.op, a.key).ret \in {a.ret, b.ret}

C19_Witness ==
    \E p \in RacePairs :
        /\ th[p[1]].ret # th[p[2]].ret
        /\ th[p[1]].ret \in made /\ th[p[2]].ret \in made

====
